---- MODULE Spec2Model ----
(***************************************************************************)
(* Telemetry ingestion and z-score anomaly detection.                      *)
(*                                                                         *)
(* State: the two tables of telemetry.db (telemetry_data, anomalies), the  *)
(* position of every detect_anomaly_zscore call in flight, and what the    *)
(* step just taken returned to its caller.                                 *)
(*                                                                         *)
(* detect_anomaly_zscore has no caller in the sources; it is modelled as   *)
(* an operation that may be called for any stored reading, with any of     *)
(* the window sizes and thresholds below, by two threads at a time.        *)
(* The GET endpoints are one operation that runs the endpoint's queries.   *)
(*                                                                         *)
(* Numbers.  metric_value is a float in the source.  The finite values of  *)
(* the model are integers, float('inf') is the value PosInf, and a         *)
(* threshold is held in tenths (25 is 2.5).  Mean and standard deviation   *)
(* are kept as exact fractions: with n = len(values) and S = sum(values),  *)
(*    mean          = S / n                                                *)
(*    std_dev^2     = (1/n) * SUM (x - mean)^2 = SqDev / n^3               *)
(*    z_score^2     = (v - mean)^2 / std_dev^2 = n * (n*v - S)^2 / SqDev   *)
(* where SqDev = SUM (n*x - S)^2, so every comparison of the source is a   *)
(* comparison of integers.  Rounding of binary floats is not modelled.     *)
(* The columns unit and anomaly_type (a label holding the rounded score)   *)
(* are carried by no operation's control flow and are left out.            *)
(***************************************************************************)
EXTENDS Integers, Sequences, FiniteSets

VARIABLES readings, anomalies, det, last, ingested

vars == <<readings, anomalies, det, last, ingested>>

\* ------------------------------------------------------------------ bounds

\* Readings one run of the application stores on top of what the database
\* file already holds (a request that stores nothing is not counted).
MaxIngest == 2

\* The threads that may run detect_anomaly_zscore at the same time.
Procs == {1, 2}

\* ------------------------------------------------------- program constants

\* crud.py: "if len(values) < 5"
MIN_SAMPLES == 5
\* crud.py: window_size: int = 50
DEFAULT_WINDOW == 50
\* crud.py: z_score_threshold: float = 2.5, in tenths
DEFAULT_THRESHOLD == 25
\* float('inf'), which the float field metric_value accepts
PosInf == 999

WindowSizes == {MIN_SAMPLES, DEFAULT_WINDOW}
Thresholds == {20, DEFAULT_THRESHOLD}

IsFinite(v) == v < PosInf

\* ---------------------------------------------------------------- requests

Req(d, m, v, t) ==
    [timestamp |-> t, device_id |-> d, metric_name |-> m, metric_value |-> v]

\* The bodies POSTed to /telemetry/.  Two readings of the device and metric
\* of the rows the file may hold (a recent one and one with an old
\* timestamp), a reading that differs from them in the device only and one
\* that differs in the metric only, a reading whose value is Infinity, and
\* two bodies with an empty string.
Requests ==
    {Req("d1", "m1", 5, 2), Req("d1", "m1", 6, 1),
     Req("d2", "m1", 6, 2), Req("d1", "m2", 6, 2),
     Req("d1", "m1", PosInf, 1),
     Req("", "m1", 0, 1), Req("d1", "", 0, 1)}

\* telemetry.db outlives the application (create_all only creates missing
\* tables): a run starts on an empty file or on the rows earlier runs
\* stored through this same endpoint.
ShortHistory ==
    <<Req("d1", "m1", 0, 1), Req("d1", "m1", 0, 1), Req("d1", "m1", 0, 1),
      Req("d1", "m1", 5, 2)>>
Baseline == [i \in 1..MIN_SAMPLES |-> Req("d1", "m1", 0, 1)]
InitialStores == {<<>>, ShortHistory, Baseline}

\* ------------------------------------------------------------- validation

\* TelemetryDataCreate: min_length=1 on device_id and metric_name; the field
\* metric_value: float carries no constraint.
Validates(t) == t.device_id # "" /\ t.metric_name # ""

\* ------------------------------------------------------------ persistence

\* A variant whose row reaches the table although the commit raised.
create_telemetry_data_KeepsRowOnError(store, t, commitOk) ==
    [ok |-> commitOk, store |-> Append(store, t),
     id |-> IF commitOk THEN Len(store) + 1 ELSE 0]

\* crud.create_telemetry_data: add, commit, refresh.  commitOk is whether
\* db.commit() succeeds; the id of the new row is its position.
create_telemetry_data(store, t, commitOk) ==
    IF commitOk
    THEN [ok |-> TRUE, store |-> Append(store, t), id |-> Len(store) + 1]
    ELSE [ok |-> FALSE, store |-> store, id |-> 0]

\* A variant without the unique index.
UniqueTelemetryId_Dropped(anoms, data) == TRUE

\* Anomaly.telemetry_id: unique=True
UniqueTelemetryId(anoms, data) ==
    \A k \in 1..Len(anoms) : anoms[k].telemetry_id # data.telemetry_id

\* A variant whose row reaches the table although the store raised.
create_anomaly_KeepsRowOnError(anoms, data, commitOk) ==
    IF \E k \in 1..Len(anoms) : anoms[k].telemetry_id = data.telemetry_id
    THEN [res |-> "integrity_error", anoms |-> anoms, id |-> 0]
    ELSE IF ~commitOk
    THEN [res |-> "storage_error", anoms |-> Append(anoms, data), id |-> 0]
    ELSE [res |-> "anomaly", anoms |-> Append(anoms, data), id |-> Len(anoms) + 1]

\* A variant that overwrites the reading's Anomaly row when there is one.
create_anomaly_Overwrites(anoms, data, commitOk) ==
    IF ~commitOk
    THEN [res |-> "storage_error", anoms |-> anoms, id |-> 0]
    ELSE IF \E k \in 1..Len(anoms) : anoms[k].telemetry_id = data.telemetry_id
    THEN LET k == CHOOSE j \in 1..Len(anoms) : anoms[j].telemetry_id = data.telemetry_id
         IN  [res |-> "anomaly", anoms |-> [anoms EXCEPT ![k] = data], id |-> k]
    ELSE [res |-> "anomaly", anoms |-> Append(anoms, data), id |-> Len(anoms) + 1]

\* crud.create_anomaly: add, commit, refresh.  The commit raises
\* IntegrityError when the unique index rejects the row and
\* OperationalError when the store does not take the write.
create_anomaly(anoms, data, commitOk) ==
    IF ~UniqueTelemetryId(anoms, data)
    THEN [res |-> "integrity_error", anoms |-> anoms, id |-> 0]
    ELSE IF ~commitOk
    THEN [res |-> "storage_error", anoms |-> anoms, id |-> 0]
    ELSE [res |-> "anomaly", anoms |-> Append(anoms, data), id |-> Len(anoms) + 1]

\* ------------------------------------------------------------ window fetch

\* A variant of the filter without "id != telemetry_record.id".
Candidates_KeepsSelf(store, id) ==
    {i \in 1..Len(store) :
        /\ store[i].device_id = store[id].device_id
        /\ store[i].metric_name = store[id].metric_name}

\* A variant of the filter without "device_id == telemetry_record.device_id".
Candidates_AnyDevice(store, id) ==
    {i \in 1..Len(store) :
        /\ store[i].metric_name = store[id].metric_name
        /\ i # id}

\* The filter of the query: same device, same metric, another id.
Candidates(store, id) ==
    {i \in 1..Len(store) :
        /\ store[i].device_id = store[id].device_id
        /\ store[i].metric_name = store[id].metric_name
        /\ i # id}

MinOf(a, b) == IF a < b THEN a ELSE b

\* order_by(timestamp.desc()).limit(window_size): the rows the query may
\* return.  Rows of equal timestamp come in an order SQL leaves open.
Windows(store, id, ws) ==
    LET C == Candidates(store, id)
    IN  {W \in SUBSET C :
            /\ Cardinality(W) = MinOf(ws, Cardinality(C))
            /\ \A i \in W, j \in C \ W : store[i].timestamp >= store[j].timestamp}

\* ------------------------------------------------------------------ scorer

RECURSIVE SumVal(_, _)
SumVal(store, W) ==
    IF W = {} THEN 0
    ELSE LET i == CHOOSE x \in W : TRUE
         IN  store[i].metric_value + SumVal(store, W \ {i})

RECURSIVE SqDev(_, _, _, _)
\* SUM over the rows of Rest of (n*x - S)^2
SqDev(store, Rest, n, S) ==
    IF Rest = {} THEN 0
    ELSE LET i == CHOOSE x \in Rest : TRUE
             d == n * store[i].metric_value - S
         IN  d * d + SqDev(store, Rest \ {i}, n, S)

AllFinite(store, W) == \A i \in W : IsFinite(store[i].metric_value)

\* A variant without the std_dev guard (a division by zero gives inf).
StdDevIsZero_Never(store, W) == FALSE

\* "if std_dev == 0".  A window holding inf has mean inf and std nan, and
\* nan == 0 is False.
StdDevIsZero(store, W) ==
    /\ AllFinite(store, W)
    /\ SqDev(store, W, Cardinality(W), SumVal(store, W)) = 0

\* A variant comparing with >= in place of >.
ZScoreExceeds_NonStrict(store, id, W, thr) ==
    LET n == Cardinality(W)
        S == SumVal(store, W)
        v == store[id].metric_value
        e == n * v - S
    IN  IF ~AllFinite(store, W) THEN FALSE
        ELSE IF ~IsFinite(v) THEN TRUE
        ELSE 100 * n * e * e >= thr * thr * SqDev(store, W, n, S)

\* "if z_score > z_score_threshold", thr in tenths and not negative.
\* A window holding inf gives z_score nan, and nan > thr is False; a finite
\* window and the value inf give z_score inf.
ZScoreExceeds(store, id, W, thr) ==
    LET n == Cardinality(W)
        S == SumVal(store, W)
        v == store[id].metric_value
        e == n * v - S
    IN  IF ~AllFinite(store, W) THEN FALSE
        ELSE IF ~IsFinite(v) THEN TRUE
        ELSE 100 * n * e * e > thr * thr * SqDev(store, W, n, S)

\* A variant whose guard on len(values) lets four values through.
PositiveVerdict_FloorOfFour(store, id, W, thr) ==
    /\ ~(Cardinality(W) < MIN_SAMPLES - 1)
    /\ ~StdDevIsZero(store, W)
    /\ ZScoreExceeds(store, id, W, thr)

\* A variant without the guard on len(values).
PositiveVerdict_NoFloor(store, id, W, thr) ==
    /\ ~StdDevIsZero(store, W)
    /\ ZScoreExceeds(store, id, W, thr)

\* The verdict of detect_anomaly_zscore on the fetched rows W.
PositiveVerdict(store, id, W, thr) ==
    /\ ~(Cardinality(W) < MIN_SAMPLES)
    /\ ~StdDevIsZero(store, W)
    /\ ZScoreExceeds(store, id, W, thr)

\* A variant that records the default threshold, not the one passed.
AnomalyData_DefaultThreshold(store, id, thr) ==
    [telemetry_id |-> id,
     device_id |-> store[id].device_id,
     metric_name |-> store[id].metric_name,
     metric_value |-> store[id].metric_value,
     timestamp |-> store[id].timestamp,
     threshold_used |-> DEFAULT_THRESHOLD]

\* anomaly_data
AnomalyData(store, id, thr) ==
    [telemetry_id |-> id,
     device_id |-> store[id].device_id,
     metric_name |-> store[id].metric_name,
     metric_value |-> store[id].metric_value,
     timestamp |-> store[id].timestamp,
     threshold_used |-> thr]

\* ------------------------------------------------------------------- state

\* A call of detect_anomaly_zscore that is not running, and one that is
\* between its verdict and its write.
Idle == [pc |-> "idle", id |-> 0, thr |-> 0]
Recording(id, thr) == [pc |-> "recording", id |-> id, thr |-> thr]

\* What the step just taken did, as its caller sees it, until the caller has
\* read it (NoOutcome: nothing is waiting to be read).  phase is the state of
\* the reading's flow (Received, Stored, Windowed, Scored, Recorded,
\* Discarded) the step left the reading in; ws and win are the window size
\* and the rows of the query, when the step ran one; made is the id of the
\* Anomaly the step returned, or 0.
Outcome(op, res, phase, id, thr, ws, win, made) ==
    [op |-> op, res |-> res, phase |-> phase, id |-> id, thr |-> thr,
     ws |-> ws, win |-> win, made |-> made]

NoOutcome == Outcome("none", "none", "none", 0, 0, 0, {}, 0)

Init ==
    /\ readings \in InitialStores
    /\ anomalies = <<>>
    /\ det = [p \in Procs |-> Idle]
    /\ last = NoOutcome
    /\ ingested = 0

\* ----------------------------------------------------------------- actions

\* POST /telemetry/ (main.create_telemetry_data).  A body that does not
\* validate is answered 422 before the handler runs.  The handler stores the
\* reading and returns it; any exception becomes HTTP 500.
Ingest(t, commitOk) ==
    /\ last = NoOutcome
    /\ (Validates(t) /\ commitOk) => ingested < MaxIngest
    /\ UNCHANGED <<anomalies, det>>
    /\ IF ~Validates(t)
       THEN /\ last' = Outcome("ingest", "rejected", "Received", 0, 0, 0, {}, 0)
            /\ UNCHANGED <<readings, ingested>>
       ELSE LET r == create_telemetry_data(readings, t, commitOk)
            IN  /\ readings' = r.store
                /\ IF r.ok
                   THEN /\ last' = Outcome("ingest", "stored", "Stored", r.id, 0, 0, {}, 0)
                        /\ ingested' = ingested + 1
                   ELSE /\ last' = Outcome("ingest", "http500", "Received", 0, 0, 0, {}, 0)
                        /\ UNCHANGED ingested

\* detect_anomaly_zscore up to its first write: the query, the length and
\* std_dev guards and the comparison.  Without a positive verdict the call
\* returns None here.
DetectDiscard(id, ws, thr) ==
    /\ last = NoOutcome
    /\ \E p \in Procs : det[p].pc = "idle"
    /\ UNCHANGED <<readings, anomalies, det, ingested>>
    /\ \E W \in Windows(readings, id, ws) :
          /\ ~PositiveVerdict(readings, id, W, thr)
          /\ last' = Outcome("detect", "none", "Discarded", id, thr, ws, W, 0)

\* The same steps with a positive verdict: the call of thread p goes on to
\* create_anomaly.
DetectScore(p, id, ws, thr) ==
    /\ last = NoOutcome
    /\ det[p].pc = "idle"
    /\ UNCHANGED <<readings, anomalies, ingested>>
    /\ \E W \in Windows(readings, id, ws) :
          /\ PositiveVerdict(readings, id, W, thr)
          /\ det' = [det EXCEPT ![p] = Recording(id, thr)]
          /\ last' = Outcome("detect", "positive", "Scored", id, thr, ws, W, 0)

\* "return create_anomaly(db, anomaly_data)": an exception of the commit
\* leaves detect_anomaly_zscore as it is raised.
DetectRecord(p, commitOk) ==
    /\ last = NoOutcome
    /\ det[p].pc = "recording"
    /\ UNCHANGED <<readings, ingested>>
    /\ LET c == det[p]
           r == create_anomaly(anomalies, AnomalyData(readings, c.id, c.thr), commitOk)
       IN  /\ anomalies' = r.anoms
           /\ det' = [det EXCEPT ![p] = Idle]
           /\ last' = Outcome("detect", r.res,
                              IF r.res = "anomaly" THEN "Recorded" ELSE "Scored",
                              c.id, c.thr, 0, {}, r.id)

\* The GET endpoints that query the tables: /telemetry/, /telemetry/device/,
\* /telemetry/recent/, /telemetry/summary/, /anomalies/ and /plot/.
ReadEndpoints == {"telemetry", "device", "recent", "summary", "anomalies", "plot"}

\* The device and metric of the path of a GET.
ReadKeys == {<<"d1", "m1">>, <<"d2", "m1">>}

\* The telemetry_data rows the endpoint's query selects.  skip is 0, and the
\* limits (100, 10 for recent, 200 for plot) are above the rows a run holds.
RowsRead(ep, d, m) ==
    {i \in 1..Len(readings) :
        /\ ep # "anomalies"
        /\ ep \in {"device", "recent", "summary", "plot"} => readings[i].device_id = d
        /\ ep \in {"summary", "plot"} => readings[i].metric_name = m}

\* The number of anomalies rows the endpoint's query selects.
AnomaliesRead(ep, d, m) ==
    IF ep = "anomalies" THEN Len(anomalies)
    ELSE IF ep = "plot"
    THEN Cardinality({k \in 1..Len(anomalies) :
                         anomalies[k].device_id = d /\ anomalies[k].metric_name = m})
    ELSE 0

\* A GET endpoint: it runs its queries and answers with what they selected,
\* or with 404 when a query by device or by device and metric selected no
\* telemetry row.  It adds, commits and deletes nothing.
Read(ep, d, m) ==
    /\ last = NoOutcome
    /\ UNCHANGED <<readings, anomalies, det, ingested>>
    /\ IF ep \notin {"telemetry", "anomalies"} /\ RowsRead(ep, d, m) = {}
       THEN last' = Outcome("read", "http404", "none", 0, 0, 0, {}, 0)
       ELSE last' = Outcome("read", "ok", "none", 0, 0, 0,
                            RowsRead(ep, d, m), AnomaliesRead(ep, d, m))

\* The caller reads what the step returned.  No step reads last, so taking
\* the steps one outcome at a time leaves out no behaviour of the tables or
\* of the calls in flight.
Observe ==
    /\ last # NoOutcome
    /\ last' = NoOutcome
    /\ UNCHANGED <<readings, anomalies, det, ingested>>

Next ==
    \/ \E t \in Requests, ok \in BOOLEAN : Ingest(t, ok)
    \/ \E id \in 1..Len(readings), ws \in WindowSizes, thr \in Thresholds :
          DetectDiscard(id, ws, thr)
    \/ \E p \in Procs, id \in 1..Len(readings), ws \in WindowSizes, thr \in Thresholds :
          DetectScore(p, id, ws, thr)
    \/ \E p \in Procs, ok \in BOOLEAN : DetectRecord(p, ok)
    \/ \E ep \in ReadEndpoints, k \in ReadKeys : Read(ep, k[1], k[2])
    \/ Observe

Spec == Init /\ [][Next]_vars

\* ================================================================== claims

\* Readings of the same device and metric as reading id, id itself left out.
Others(id) ==
    {i \in 1..Len(readings) :
        /\ i # id
        /\ readings[i].device_id = readings[id].device_id
        /\ readings[i].metric_name = readings[id].metric_name}

RECURSIVE Total(_)
\* The sum of the values of the rows W.
Total(W) ==
    IF W = {} THEN 0
    ELSE LET i == CHOOSE x \in W : TRUE
         IN  readings[i].metric_value + Total(W \ {i})

RECURSIVE TotalSq(_)
\* The sum of the squares of the values of the rows W.
TotalSq(W) ==
    IF W = {} THEN 0
    ELSE LET i == CHOOSE x \in W : TRUE
         IN  readings[i].metric_value * readings[i].metric_value + TotalSq(W \ {i})

FiniteWindow(W) == \A i \in W : readings[i].metric_value # PosInf

\* n^2 times the population variance of the values of W: n*SUM x^2 - (SUM x)^2
VarianceN2(W) == Cardinality(W) * TotalSq(W) - Total(W) * Total(W)

\* sigma > 0 (a window holding an infinite value has no standard deviation)
SigmaPositive(W) == FiniteWindow(W) /\ VarianceN2(W) > 0

\* abs((v - mu) / sigma) > thr/10 for a window with sigma > 0, squared and
\* cleared of fractions: 100 * (n*v - SUM x)^2 > thr^2 * n^2 * sigma^2.
ScoreAbove(v, W, thr) ==
    LET e == Cardinality(W) * v - Total(W)
    IN  v = PosInf \/ 100 * e * e > thr * thr * VarianceN2(W)

\* abs((v - mu) / sigma) = thr/10
ScoreAtThreshold(v, W, thr) ==
    LET e == Cardinality(W) * v - Total(W)
    IN  v # PosInf /\ 100 * e * e = thr * thr * VarianceN2(W)

\* The step just taken ran the query and the comparison of a detect call.
Scored == last.op = "detect" /\ last.res \in {"none", "positive"}

\* The step just taken ended a detect call.
Returned == last.op = "detect" /\ last.res # "positive"

HasAnomaly(id) == \E k \in 1..Len(anomalies) : anomalies[k].telemetry_id = id

\* A thread p whose call left create_anomaly in this step.
Recorded(p) == det[p].pc = "recording" /\ det'[p].pc = "idle"

\* The Anomaly row a positive verdict of thread p's call asks for.
RowOf(p) ==
    [telemetry_id |-> det[p].id,
     device_id |-> readings[det[p].id].device_id,
     metric_name |-> readings[det[p].id].metric_name,
     metric_value |-> readings[det[p].id].metric_value,
     timestamp |-> readings[det[p].id].timestamp,
     threshold_used |-> det[p].thr]

\* ---- C1
\* C1 (as claimed): when the ingestion entry point has stored a reading and
\* returns, the reading's flow went on through Windowed and Scored to one of
\* the terminal states Recorded or Discarded, anomaly detection having run
\* for it.  main.create_telemetry_data returns right after the store.
C1_IngestionScoresTheReading ==
    (last.op = "ingest" /\ last.res = "stored")
        => last.phase \in {"Recorded", "Discarded"}

\* ---- C2
\* C2 (as claimed): for a window of at least 5 values with sigma > 0, detect
\* creates and returns an Anomaly if and only if the score is above the
\* threshold.  Stated for the calls whose write the store does not refuse
\* for being unavailable and for readings with a finite value: a call either
\* has no positive verdict, with a score not above the threshold, or returns
\* the Anomaly it created.
C2_AnomalyIffScoreAbove ==
    /\ (Scored /\ Cardinality(last.win) >= MIN_SAMPLES /\ SigmaPositive(last.win))
          => (last.res = "positive" <=>
                 ScoreAbove(readings[last.id].metric_value, last.win, last.thr))
    /\ (Returned /\ last.res # "none" /\ last.res # "storage_error"
            /\ readings[last.id].metric_value # PosInf)
          => last.res = "anomaly"

\* C2 (amended): for a window of at least 5 values with sigma > 0, detect
\* reaches a positive verdict, and goes on to create an Anomaly, if and only
\* if the score is above the threshold; at the threshold exactly it returns
\* None and creates nothing.  A call with a positive verdict creates and
\* returns the Anomaly unless persisting it fails, and then it raises and
\* creates nothing.
C2_VerdictIffScoreAbove ==
    [][/\ (Scored' /\ Cardinality(last'.win) >= MIN_SAMPLES
                /\ SigmaPositive(last'.win))
          => /\ last'.res = "positive" <=>
                   ScoreAbove(readings[last'.id].metric_value, last'.win, last'.thr)
             /\ ScoreAtThreshold(readings[last'.id].metric_value, last'.win, last'.thr)
                   => last'.res = "none"
             /\ anomalies' = anomalies
             /\ last'.res = "positive" <=>
                   \E p \in Procs : det[p].pc = "idle" /\ det'[p] = Recording(last'.id, last'.thr)
             /\ last'.res = "none" => det' = det
       /\ \A p \in Procs : Recorded(p) =>
             \/ last'.res = "anomaly" /\ anomalies' = Append(anomalies, RowOf(p))
             \/ last'.res \in {"integrity_error", "storage_error"} /\ anomalies' = anomalies
       /\ anomalies' # anomalies => \E p \in Procs : Recorded(p)
      ]_vars

\* C2 witnesses: a score exactly at the default threshold that returned None
\* after a score above it was recorded.
C2_Witness ==
    /\ Scored /\ last.res = "none"
    /\ Cardinality(last.win) >= MIN_SAMPLES /\ SigmaPositive(last.win)
    /\ last.thr = DEFAULT_THRESHOLD
    /\ ScoreAtThreshold(readings[last.id].metric_value, last.win, last.thr)
    /\ \E k \in 1..Len(anomalies) : anomalies[k].metric_value # PosInf

\* ---- C3
\* C3: when the store holds fewer than 5 other readings of the evaluated
\* reading's device and metric, detect returns None and no Anomaly of that
\* reading is persisted or about to be, whatever the value, the window size
\* and the threshold.
C3_FewerThanFiveIsNone ==
    (Scored /\ Cardinality(Others(last.id)) < MIN_SAMPLES)
        => /\ last.res = "none"
           /\ last.made = 0
           /\ ~HasAnomaly(last.id)
           /\ \A p \in Procs : ~(det[p].pc = "recording" /\ det[p].id = last.id)

\* C3 witness: four other readings, not all equal, and a score above the
\* threshold, returned None.
C3_Witness ==
    /\ Scored /\ last.res = "none"
    /\ Cardinality(Others(last.id)) = MIN_SAMPLES - 1
    /\ last.win = Others(last.id)
    /\ SigmaPositive(last.win)
    /\ ScoreAbove(readings[last.id].metric_value, last.win, last.thr)

C5_OneAnomalyPerReading ==
    /\ \A j, k \in 1..Len(anomalies) :
          anomalies[j].telemetry_id = anomalies[k].telemetry_id => j = k
    /\ (Returned /\ last.res = "integrity_error")
          => /\ HasAnomaly(last.id)
             /\ last.made = 0

\* C5 witness: a call was rejected by the unique index while another call for
\* the same reading, which has its Anomaly, was between verdict and write.
C5_Witness ==
    /\ Returned /\ last.res = "integrity_error"
    /\ HasAnomaly(last.id)
    /\ \E p \in Procs : det[p].pc = "recording" /\ det[p].id = last.id

\* ---- C6
\* C6: the rows the query returned for reading r are readings of r's device
\* and metric other than r, at most window_size of them; with more than
\* window_size such readings they are window_size readings none of which is
\* older than a reading left out, and otherwise they are all of them.
C6_WindowContents ==
    Scored =>
        /\ last.win \subseteq Others(last.id)
        /\ last.id \notin last.win
        /\ Cardinality(last.win) <= last.ws
        /\ Cardinality(Others(last.id)) > last.ws =>
              /\ Cardinality(last.win) = last.ws
              /\ \A i \in last.win, j \in Others(last.id) \ last.win :
                    readings[i].timestamp >= readings[j].timestamp
        /\ Cardinality(Others(last.id)) <= last.ws => last.win = Others(last.id)

\* C6 witness: more readings than window_size, a recent one among them that
\* the window holds, and in the window a reading equal to r in every column.
C6_Witness ==
    /\ Scored
    /\ Cardinality(Others(last.id)) > last.ws
    /\ \E i \in last.win, j \in Others(last.id) \ last.win :
          readings[i].timestamp > readings[j].timestamp
    /\ \E i \in last.win : readings[i] = readings[last.id]

\* ---- C7
\* C7 (as claimed): a detect call that reached a positive verdict adds one
\* Anomaly row.  Stated for the calls whose write the store does not refuse
\* for being unavailable and for readings with a finite value.
C7_PositiveVerdictAddsARow ==
    [][\A p \in Procs :
          (Recorded(p) /\ last'.res # "storage_error"
              /\ readings[det[p].id].metric_value # PosInf)
            => Len(anomalies') = Len(anomalies) + 1
      ]_vars

\* C7 (amended): a detect call that reached a positive verdict for r, when
\* r has no Anomaly yet and the store takes the write, adds exactly one
\* Anomaly row, with telemetry_id = r.id, r's device_id, metric_name,
\* metric_value and timestamp and the threshold of the call, and returns
\* that row; otherwise it adds no row and raises.
C7_PositiveVerdictRecordsOnce ==
    [][\A p \in Procs : Recorded(p) =>
          /\ last'.op = "detect" /\ last'.id = det[p].id /\ last'.thr = det[p].thr
          /\ HasAnomaly(det[p].id) =>
                last'.res = "integrity_error" /\ anomalies' = anomalies /\ last'.made = 0
          /\ ~HasAnomaly(det[p].id) =>
                \/ /\ last'.res = "anomaly"
                   /\ anomalies' = Append(anomalies, RowOf(p))
                   /\ last'.made = Len(anomalies')
                \/ /\ last'.res = "storage_error"
                   /\ anomalies' = anomalies
                   /\ last'.made = 0
      ]_vars

\* C7 witness: a call with the non-default threshold returned the row it
\* added, which carries that threshold and the reading's finite value.
C7_Witness ==
    /\ Returned /\ last.res = "anomaly"
    /\ last.thr # DEFAULT_THRESHOLD
    /\ last.made = Len(anomalies)
    /\ anomalies[last.made].telemetry_id = last.id
    /\ anomalies[last.made].threshold_used = last.thr
    /\ anomalies[last.made].metric_value = readings[last.id].metric_value
    /\ anomalies[last.made].metric_value # PosInf

\* ---- C8
\* C8: when persisting the Anomaly fails, by the unique index or by the
\* store, the caller of detect gets the error, no Anomaly row is added and
\* the readings, the triggering one among them, are as they were; a call
\* that added no row reported an error.
C8_FailedRecordingIsReported ==
    [][\A p \in Procs : Recorded(p) =>
          /\ readings' = readings
          /\ last'.res \in {"integrity_error", "storage_error"}
                => anomalies' = anomalies /\ last'.made = 0 /\ last'.id = det[p].id
          /\ anomalies' = anomalies
                => last'.res \in {"integrity_error", "storage_error"}
      ]_vars

\* C8 witness: the store refused the write of a call whose reading has no
\* Anomaly, and the reading is in the store.
C8_Witness ==
    /\ Returned /\ last.res = "storage_error"
    /\ ~HasAnomaly(last.id)
    /\ last.id \in 1..Len(readings)

\* ---- C9
\* C9 (as claimed): no reading in the store has an empty device_id, an empty
\* metric_name or a value that is not finite.  (The stores a run starts on
\* hold none, so such a row comes from an ingestion.)
C9_MalformedNeverStored ==
    \A i \in 1..Len(readings) :
        /\ readings[i].device_id # ""
        /\ readings[i].metric_name # ""
        /\ readings[i].metric_value # PosInf

\* ---- C10
\* C10: an ingestion whose store failed is answered with an error, adds no
\* reading and no Anomaly and starts no detection; an ingestion of a valid
\* body that added no reading was answered with that error.
C10_FailedStoreAborts ==
    [][last'.op = "ingest" =>
          /\ last'.res = "http500" =>
                /\ readings' = readings /\ anomalies' = anomalies /\ det' = det
                /\ last'.phase = "Received" /\ last'.id = 0
          /\ last'.res = "stored" =>
                /\ Len(readings') = Len(readings) + 1
                /\ last'.id = Len(readings')
          /\ readings' = readings => last'.res \in {"http500", "rejected"}
      ]_vars

\* C10 witness: a failed ingestion answered with the error, on a store that
\* holds readings and while a detect call is in flight.
C10_Witness ==
    /\ last.op = "ingest" /\ last.res = "http500"
    /\ Len(readings) > 0
    /\ \E p \in Procs : det[p].pc = "recording"

\* ---- C11
\* C11 (as claimed): no reading with a timestamp later than r's is among the
\* rows the query returns for r.  Stated for the reading stored last, the one
\* no reading was stored after: the query orders the pair's other readings by
\* timestamp and compares none of them with r's timestamp, so a reading that
\* arrives with an old timestamp is scored against readings later than it.
C11_WindowIsPriorToReading ==
    (Scored /\ last.id = Len(readings))
        => \A i \in last.win : readings[i].timestamp <= readings[last.id].timestamp

\* ---- C12
\* C12: under every operation the rows a table holds stay in it with the
\* values they had.  The readings change only by an ingestion that appends
\* one reading, the anomalies only by a detect call with a positive verdict
\* that appends one Anomaly; a detect call that returns None, a call whose
\* write fails and a GET endpoint change neither table.
C12_StoresAreAppendOnly ==
    [][/\ Len(readings') >= Len(readings)
       /\ \A i \in 1..Len(readings) : readings'[i] = readings[i]
       /\ Len(anomalies') >= Len(anomalies)
       /\ \A k \in 1..Len(anomalies) : anomalies'[k] = anomalies[k]
       /\ readings' # readings =>
             /\ last'.op = "ingest" /\ last'.res = "stored"
             /\ Len(readings') = Len(readings) + 1
             /\ anomalies' = anomalies
       /\ anomalies' # anomalies =>
             /\ last'.op = "detect" /\ last'.res = "anomaly"
             /\ \E p \in Procs : Recorded(p)
             /\ Len(anomalies') = Len(anomalies) + 1
             /\ readings' = readings
       /\ (last'.op = "detect" /\ last'.res # "anomaly")
             => readings' = readings /\ anomalies' = anomalies
       /\ last'.op = "read" => readings' = readings /\ anomalies' = anomalies
      ]_vars

\* C12 witness: a GET answered with rows of both tables while a second
\* detect call for a reading that has its Anomaly is about to write.
C12_Witness ==
    /\ last.op = "read" /\ last.res = "ok"
    /\ last.win # {} /\ last.made > 0
    /\ \E p \in Procs : det[p].pc = "recording" /\ HasAnomaly(det[p].id)

\* ---- C13
\* Reading i is of the device and metric of reading id.
SamePair(i, id) ==
    /\ readings[i].device_id = readings[id].device_id
    /\ readings[i].metric_name = readings[id].metric_name

\* The table as it would be had no reading of another device or metric than
\* reading id's ever been stored, and the id reading i has in that table.
PairStore(id) ==
    LET OfPair(r) == /\ r.device_id = readings[id].device_id
                     /\ r.metric_name = readings[id].metric_name
    IN  SelectSeq(readings, OfPair)

PairIndex(i, id) == Cardinality({j \in 1..i : SamePair(j, id)})

\* C13: the rows a detect call fetched for a reading are all of the
\* reading's device and metric, they are rows the query may return on the
\* table holding that device and metric's readings alone, and the verdict
\* of the call is the verdict on that table: readings of another device or
\* of another metric, whenever they were stored, change neither.
C13_OtherPairsDoNotCount ==
    Scored =>
        LET id == last.id
            W == {PairIndex(i, id) : i \in last.win}
        IN  /\ \A i \in last.win : SamePair(i, id)
            /\ Cardinality(W) = Cardinality(last.win)
            /\ W \in Windows(PairStore(id), PairIndex(id, id), last.ws)
            /\ last.res = "positive"
                  <=> PositiveVerdict(PairStore(id), PairIndex(id, id), W, last.thr)
            /\ \A i \in last.win :
                  PairStore(id)[PairIndex(i, id)] = readings[i]

\* C13 witness: a detect call returned None for a reading, the only one of
\* its device, on a table where the readings of the other device, had they
\* counted, make five values or more with a score above the threshold.
C13_Witness ==
    LET All == (1..Len(readings)) \ {last.id}
    IN  /\ Scored /\ last.res = "none"
        /\ Others(last.id) = {}
        /\ Cardinality(All) >= MIN_SAMPLES
        /\ \A i \in All : readings[i].metric_name = readings[last.id].metric_name
        /\ SigmaPositive(All)
        /\ readings[last.id].metric_value # PosInf
        /\ ScoreAbove(readings[last.id].metric_value, All, last.thr)

\* ---- C14
\* C14: every Anomaly row refers, by telemetry_id, to a reading in the
\* table that has the row's device_id, metric_name and metric_value, and
\* the table holds at least 5 other readings of that device and metric: a
\* device and metric with fewer than 6 readings has no Anomaly.
C14_AnomalyRefersToScoredReading ==
    /\ \A k \in 1..Len(anomalies) :
          LET id == anomalies[k].telemetry_id
          IN  /\ id \in 1..Len(readings)
              /\ anomalies[k].device_id = readings[id].device_id
              /\ anomalies[k].metric_name = readings[id].metric_name
              /\ anomalies[k].metric_value = readings[id].metric_value
              /\ Cardinality(Others(id)) >= MIN_SAMPLES
    /\ \A i \in 1..Len(readings) :
          Cardinality(Others(i)) + 1 < MIN_SAMPLES + 1 =>
              \A k \in 1..Len(anomalies) :
                  ~(/\ anomalies[k].device_id = readings[i].device_id
                    /\ anomalies[k].metric_name = readings[i].metric_name)

\* C14 witness: a call recorded the Anomaly of a reading with a finite
\* value, which has six other readings of its device and metric, while
\* another call for the same reading was about to write.
C14_Witness ==
    /\ Returned /\ last.res = "anomaly"
    /\ anomalies[last.made].telemetry_id = last.id
    /\ anomalies[last.made].metric_value # PosInf
    /\ Cardinality(Others(last.id)) = MIN_SAMPLES + 1
    /\ \E p \in Procs : det[p].pc = "recording" /\ det[p].id = last.id

====
